---- MODULE Spec2Model ----
(***************************************************************************)
(* A model of citius_scraper_final_v2.py: the search pipeline of           *)
(* CitiusScraper (get_form_data retries, the search POST, _parse_results   *)
(* and its four layout handlers, save_to_csv).                             *)
(*                                                                         *)
(* Text is a sequence of symbols.  A symbol is a word (a maximal run of    *)
(* characters that are neither white space nor a colon, kept atomic), the  *)
(* colon ":", a blank " " or a line break "\n".  A label such as           *)
(* 'Credor:' is the two symbols "Credor", ":".                             *)
(*                                                                         *)
(* Markup is a sequence of nodes [k, a, t]: k is the tag ("div", "span",   *)
(* "strong", "a", "br", or "text" for a string between tags), a is the     *)
(* attribute the code looks at for that tag (class of a div, id of a span, *)
(* href of an a) and t is the node's text.  A "div" node opens a block     *)
(* that runs up to the next "div" node; blocks are siblings.               *)
(***************************************************************************)
EXTENDS Integers, Sequences, FiniteSets, TLC

(***************************************************************************)
(* Text                                                                    *)
(***************************************************************************)

IsSpace(c) == c \in {" ", "\n"}

\* s[a..b-1]
Slice(s, a, b) == SubSeq(s, a, b - 1)

\* str.lstrip / str.rstrip / str.strip
RECURSIVE LStrip(_)
LStrip(s) == IF s # <<>> /\ IsSpace(Head(s)) THEN LStrip(Tail(s)) ELSE s

RECURSIVE RStrip(_)
RStrip(s) ==
    IF s # <<>> /\ IsSpace(s[Len(s)]) THEN RStrip(Slice(s, 1, Len(s))) ELSE s

Strip(s) == LStrip(RStrip(s))

\* str.rstrip(':')
RECURSIVE RStripColon(_)
RStripColon(s) ==
    IF s # <<>> /\ s[Len(s)] = ":" THEN RStripColon(Slice(s, 1, Len(s))) ELSE s

\* the position after the run of white space that starts at p  (regex \s*, greedy)
RECURSIVE SkipWs(_, _)
SkipWs(s, p) == IF p <= Len(s) /\ IsSpace(s[p]) THEN SkipWs(s, p + 1) ELSE p

\* s has the literal lit (a text) at position p
LitAt(s, p, lit) == p + Len(lit) - 1 <= Len(s) /\ SubSeq(s, p, p + Len(lit) - 1) = lit

\* s has the label  <word>:  at position p
LabelAt(s, p, word) == LitAt(s, p, <<word, ":">>)

\* regex $ (no MULTILINE): the end of the string, or just before a final line break
AtEnd(s, e) == e = Len(s) + 1 \/ (e = Len(s) /\ s[e] = "\n")

\* regex . matches every symbol of s[a..b-1]  (no line break among them)
NoNL(s, a, b) == \A k \in a..(b - 1) : s[k] # "\n"

Min(S) == CHOOSE m \in S : \A n \in S : m <= n
Max(S) == CHOOSE m \in S : \A n \in S : n <= m

NoMatch == [found |-> FALSE, g1 |-> <<>>, has2 |-> FALSE, g2 |-> <<>>]

(***************************************************************************)
(* re.search(r'Credor:\s*(.*?)(?:\s*NIF/NIPC:\s*(.*?))?$', s)              *)
(***************************************************************************)

\* the ends f of a group 2 that starts at t: (.*?)$ matches s[t..f-1]
SpanNifEnds(s, t) == {f \in t..(Len(s) + 1) : AtEnd(s, f) /\ NoNL(s, t, f)}

\* NIF/NIPC:\s*(.*?)$ tried at position r: the positions where group 2 can start
SpanNifStarts(s, r) ==
    IF LabelAt(s, r, "NIF/NIPC")
    THEN {t \in (r + 2)..SkipWs(s, r + 2) : SpanNifEnds(s, t) # {}}
    ELSE {}

\* the optional group (?:\s*NIF/NIPC:\s*(.*?))?$ tried at position e:
\* the positions where group 2 can start (none when the group cannot match)
SpanNifAt(s, e) == SpanNifStarts(s, SkipWs(s, e))

\* the pairs (q, e) for the label's value at p: group 1 is s[q..e-1] and the rest of
\* the pattern matches at e
SpanCredorEnds(s, p) ==
    {qe \in (p..SkipWs(s, p)) \X (p..(Len(s) + 1)) :
        /\ qe[1] <= qe[2]
        /\ NoNL(s, qe[1], qe[2])
        /\ (SpanNifAt(s, qe[2]) # {} \/ AtEnd(s, qe[2]))}

\* the pair the regex engine finds first: \s* is greedy, (.*?) is lazy
SpanCredorBest(ok) ==
    CHOOSE x \in ok : \A y \in ok : x[1] > y[1] \/ (x[1] = y[1] /\ x[2] <= y[2])

\* the groups, for group 1 = s[q..e-1] and group 2 starting at one of ts (greedy \s*)
SpanCredorGroups(s, qe, ts) ==
    IF ts # {}
    THEN [found |-> TRUE, g1 |-> Slice(s, qe[1], qe[2]),
          has2 |-> TRUE, g2 |-> Slice(s, Max(ts), Min(SpanNifEnds(s, Max(ts))))]
    ELSE [found |-> TRUE, g1 |-> Slice(s, qe[1], qe[2]),
          has2 |-> FALSE, g2 |-> <<>>]

SpanCredorMatch(s, qe) == SpanCredorGroups(s, qe, SpanNifAt(s, qe[2]))

\* the match that starts with the label at position i
SpanCredorAt(s, i) == SpanCredorMatch(s, SpanCredorBest(SpanCredorEnds(s, i + 2)))

SpanCredorFirst(s, starts) ==
    IF starts = {} THEN NoMatch ELSE SpanCredorAt(s, Min(starts))

SpanCredorSearch(s) ==
    SpanCredorFirst(s, {i \in 1..Len(s) :
                          LabelAt(s, i, "Credor") /\ SpanCredorEnds(s, i + 2) # {}})

(***************************************************************************)
(* Dictionaries: a dict is a function from keys (texts) to values (texts,  *)
(* or the sequence of urls under 'Links').                                 *)
(***************************************************************************)

EmptyDict == <<>>

\* d with d[k] = v.  (The arguments are bound to their values first, so that a chain
\* of updates is evaluated once.)
Put(d, k, v) ==
    CHOOSE r \in {[x \in (DOMAIN dd) \cup {kk} |-> IF x = kk THEN vv ELSE dd[x]] :
                    dd \in {d}, kk \in {k}, vv \in {v}} : TRUE

\* the number of characters of a text
RECURSIVE CharLen(_)
CharLen(s) == IF s = <<>> THEN 0 ELSE Len(Head(s)) + CharLen(Tail(s))

\* sep.join(parts)
RECURSIVE Join(_, _)
Join(parts, sep) ==
    IF parts = <<>> THEN <<>>
    ELSE IF Len(parts) = 1 THEN parts[1]
    ELSE parts[1] \o sep \o Join(Tail(parts), sep)

\* what find and find_all look for: the tag names and, when given, the values of
\* the attribute
Tag(names)            == [k |-> names, anyAttr |-> TRUE, a |-> {}]
TagWith(names, attrs) == [k |-> names, anyAttr |-> FALSE, a |-> attrs]

Matches(n, what) == n.k \in what.k /\ (what.anyAttr \/ n.a \in what.a)

\* find_all: the indices from `from` on of the nodes of seq that match, in order
Positions(seq, what, from) ==
    LET F[i \in (from - 1)..Len(seq)] ==
            IF i < from THEN <<>>
            ELSE F[i - 1] \o (IF Matches(seq[i], what) THEN <<i>> ELSE <<>>)
    IN F[Len(seq)]

\* seqs[1] \o seqs[2] \o ...
Concat(seqs) ==
    LET F[i \in 0..Len(seqs)] == IF i = 0 THEN <<>> ELSE F[i - 1] \o seqs[i]
    IN F[Len(seqs)]

(***************************************************************************)
(* Markup                                                                  *)
(***************************************************************************)

KProcesso      == <<"Processo">>
KTribunal      == <<"Tribunal">>
KData          == <<"Data">>
KInterveniente == <<"Interveniente">>
KNif           == <<"NIF/NIPC">>
KDescricao     == <<"Descrição">>
KLinks         == <<"Links">>
KConteudo      == <<"Conteúdo">>
KCredor        == <<"Credor">>
KCredorNif     == <<"Credor", " ", "NIF/NIPC">>
KNome          == <<"Nome">>

\* self.base_url and the urls urljoin makes of it
base_url == "https://www.citius.mj.pt/portal/consultas/consultascire.aspx"
BaseDir  == "https://www.citius.mj.pt/portal/consultas/"

\* an href that carries its own scheme
IsAbsolute(href) == href \in {"https://docs.example/edital.pdf"}

\* urljoin(self.base_url, href), for a non-empty href
urljoin(base, href) == IF IsAbsolute(href) THEN href ELSE BaseDir \o href

\* the (id pattern, key) pairs of the anchor strategy, in the code's order
AnchorRoles ==
    << <<{"lblProcesso"}, KProcesso>>,
       <<{"lblTribunal"}, KTribunal>>,
       <<{"lblData"}, KData>>,
       <<{"lblInterveniente"}, KInterveniente>>,
       <<{"lblNIF"}, KNif>>,
       <<{"lblDescricao", "lblTexto"}, KDescricao>> >>

\* Método 1: item.find(['span','div'], {'id': ...}) per role; the first match wins
RECURSIVE AnchorFields(_, _, _)
AnchorFields(nodes, result, r) ==
    IF r > Len(AnchorRoles) THEN result
    ELSE LET found == Positions(nodes, TagWith({"span"}, AnchorRoles[r][1]), 1)
         IN AnchorFields(nodes,
                         IF found = <<>> THEN result
                         ELSE Put(result, AnchorRoles[r][2], Strip(nodes[found[1]].t)),
                         r + 1)

\* FieldValue up to the next br or the next strong tag
RECURSIVE FieldValue_ToNextStrong(_, _)
FieldValue_ToNextStrong(nodes, j) ==
    IF j > Len(nodes) \/ nodes[j].k \in {"br", "strong", "subdiv"} THEN <<>>
    ELSE (IF nodes[j].k = "text" THEN nodes[j].t ELSE <<>>)
             \o FieldValue_ToNextStrong(nodes, j + 1)

\* the text nodes after the strong tag at position j, up to the next br (a nested
\* div is the last sibling of the nodes before it)
RECURSIVE FieldValue(_, _)
FieldValue(nodes, j) ==
    IF j > Len(nodes) \/ nodes[j].k \in {"br", "subdiv"} THEN <<>>
    ELSE (IF nodes[j].k = "text" THEN nodes[j].t ELSE <<>>) \o FieldValue(nodes, j + 1)

\* Método 2: one field per strong tag, in document order (a later one overwrites)
RECURSIVE StrongFields(_, _, _)
StrongFields(nodes, result, tags) ==
    IF tags = <<>> THEN result
    ELSE LET j          == Head(tags)
             field_name == RStripColon(Strip(nodes[j].t))
         IN StrongFields(nodes,
                         Put(result, field_name, Strip(FieldValue(nodes, j + 1))),
                         Tail(tags))

IsStrong == Tag({"strong"})
IsLink   == Tag({"a"})
IsSpan   == Tag({"span"})

\* NeedsLabels with the label strategy also after two fields
NeedsLabels_UpToTwo(result) == Cardinality(DOMAIN result) <= 2

\* the label strategy runs when the anchor strategy found fewer than two fields
NeedsLabels(result) == Cardinality(DOMAIN result) < 2

\* result['Links']: the urls of the a tags that have an href
LinkUrls(nodes) ==
    LET Url(n) == IF n.k = "a" /\ n.a # "" THEN <<urljoin(base_url, n.a)>> ELSE <<>>
    IN Concat([i \in 1..Len(nodes) |-> Url(nodes[i])])

WithLinks(nodes, result) ==
    IF Positions(nodes, IsLink, 1) # <<>> THEN Put(result, KLinks, LinkUrls(nodes))
    ELSE result

\* get_text(separator=' ', strip=True): the non-blank strings, stripped, joined
GetTextSep(nodes) ==
    LET Str(n) == IF Strip(n.t) # <<>> THEN <<Strip(n.t)>> ELSE <<>>
    IN Join(Concat([i \in 1..Len(nodes) |-> Str(nodes[i])]), <<" ">>)

\* Método 3: the whole text, when nothing else was found
WithContent(nodes, result) ==
    IF result = EmptyDict /\ GetTextSep(nodes) # <<>>
    THEN Put(result, KConteudo, GetTextSep(nodes))
    ELSE result

\* the fields of one fragment: Métodos 1 to 3 and the links
FragmentFields(nodes) ==
    LET anchored == AnchorFields(nodes, EmptyDict, 1)
        labelled == IF NeedsLabels(anchored)
                    THEN StrongFields(nodes, anchored, Positions(nodes, IsStrong, 1))
                    ELSE anchored
    IN WithContent(nodes, WithLinks(nodes, labelled))

\* credor_info of one span, or nothing
SpanCredor(n) ==
    LET m           == SpanCredorSearch(Strip(n.t))
        credor_nome == Strip(m.g1)
        credor_nif  == IF m.has2 THEN Strip(m.g2) ELSE <<>>
    IN IF n.k = "span" /\ m.found /\ credor_nome # <<>>
       THEN << IF credor_nif # <<>>
               THEN Put(Put(EmptyDict, KNome, credor_nome), KNif, credor_nif)
               ELSE Put(EmptyDict, KNome, credor_nome) >>
       ELSE <<>>

\* credores: item.find_all('span'), in document order
Credores(nodes) == Concat([i \in 1..Len(nodes) |-> SpanCredor(nodes[i])])

\* if result: (with result['Credores'] set when credores is not empty)
HasContent(rec) == rec.result # EmptyDict \/ rec.credores # <<>>

\* CredorRow without the  if 'NIF/NIPC' in credor  step
CredorRow_NoNif(base_result, credor) == Put(base_result, KCredor, credor[KNome])

\* one row per creditor (base_result plus the creditor), or the result as it is
CredorRow(base_result, credor) ==
    LET named == Put(base_result, KCredor, credor[KNome])
    IN IF KNif \in DOMAIN credor THEN Put(named, KCredorNif, credor[KNif]) ELSE named

\* ExpandRecord with the rows of the creditors from the last to the first
ExpandRecord_LastFirst(rec) ==
    IF ~HasContent(rec) THEN <<>>
    ELSE IF Len(rec.credores) > 0
    THEN [c \in 1..Len(rec.credores) |->
             CredorRow(rec.result, rec.credores[Len(rec.credores) + 1 - c])]
    ELSE <<rec.result>>

\* ExpandRecord with a row for the first creditor only
ExpandRecord_FirstOnly(rec) ==
    IF ~HasContent(rec) THEN <<>>
    ELSE IF Len(rec.credores) > 0
    THEN <<Put(rec.result, KCredor, rec.credores[1][KNome])>>
    ELSE <<rec.result>>

ExpandRecord(rec) ==
    IF ~HasContent(rec) THEN <<>>
    ELSE IF Len(rec.credores) > 0
    THEN [c \in 1..Len(rec.credores) |-> CredorRow(rec.result, rec.credores[c])]
    ELSE <<rec.result>>

\* results: the rows of the records, in order
Expand(recs) == Concat([i \in 1..Len(recs) |-> ExpandRecord(recs[i])])

(***************************************************************************)
(* _parse_div_results (PANEL_LIST)                                         *)
(***************************************************************************)

\* find_all('div') gives the divs at every depth: a "div" node is a div directly in
\* the results div, a "subdiv" node a div nested in the div before it
IsDiv       == Tag({"div", "subdiv"})
IsResultDiv == TagWith({"div", "subdiv"}, {"resultadocdital"})

\* the nodes of the block opened at position p: up to the next node that opens one
BlockNodes(body, p, opens) ==
    LET later == Positions(body, opens, p + 1)
    IN Slice(body, p + 1, IF later = <<>> THEN Len(body) + 1 ELSE later[1])

\* the nodes inside the div at position p: those of a div run to the next div of
\* its depth, the divs nested in it and what they hold included; those of a nested
\* div run to the next div
DivBlock(body, p) ==
    BlockNodes(body, p, IF body[p].k = "div" THEN Tag({"div"}) ELSE IsDiv)

\* result_items: the divs of class resultadocdital, or else every div
ResultItems(body) ==
    IF Positions(body, IsResultDiv, 1) # <<>> THEN Positions(body, IsResultDiv, 1)
    ELSE Positions(body, IsDiv, 1)

\* the record the loop body builds for one item: result, and the credores list
DivRecord(nodes) == [result |-> FragmentFields(nodes), credores |-> Credores(nodes)]

DivRecords(body) ==
    LET items == ResultItems(body)
    IN [i \in 1..Len(items) |-> DivRecord(DivBlock(body, items[i]))]

_parse_div_results(body) == Expand(DivRecords(body))

(***************************************************************************)
(* _parse_list_results (LABELED_SPANS): "item" nodes are the direct child  *)
(* spans of the results span; each opens a block up to the next "item".    *)
(***************************************************************************)

IsItem == Tag({"item"})

\* 'Conteúdo' needs more than this many characters when the item has no result div
MinContentLen == 10

\* the record of one list item (its nodes are those inside the child span)
ListRecord(inner) ==
    LET divs == Positions(inner, IsResultDiv, 1)
    IN IF divs # <<>>
       THEN \* result_div: fields from the div, creditors from the whole item
            [result   |-> FragmentFields(BlockNodes(inner, divs[1], IsDiv)),
             credores |-> Credores(inner)]
       ELSE \* no result div: the text of the item, when long enough, and its links
            LET all_text == GetTextSep(inner)
            IN [result   |-> IF all_text # <<>> /\ CharLen(all_text) > MinContentLen
                             THEN WithLinks(inner, Put(EmptyDict, KConteudo, all_text))
                             ELSE EmptyDict,
                credores |-> <<>>]

ListRecords(body) ==
    LET items == Positions(body, IsItem, 1)
    IN [i \in 1..Len(items) |-> ListRecord(BlockNodes(body, items[i], IsItem))]

_parse_list_results(body) == Expand(ListRecords(body))

(***************************************************************************)
(* _parse_table_results (TABLE): "tr" nodes open rows (a is the class),    *)
(* "th" and "td" nodes are cells, an "a" node is a link in the cell before *)
(* it.                                                                     *)
(***************************************************************************)

IsRow       == Tag({"tr"})
IsHeaderRow == TagWith({"tr"}, {"GridHeader"})
IsDataRow   == TagWith({"tr"}, {"GridRow", "GridAlternateRow"})
IsTh        == Tag({"th"})
IsTd        == Tag({"td"})
IsCell      == Tag({"th", "td"})

\* headers: the th of the GridHeader row, or else the th and td of the first row
Headers(body) ==
    LET hdr  == Positions(body, IsHeaderRow, 1)
        rows == Positions(body, IsRow, 1)
        Text(row, what) ==
            LET cells == BlockNodes(body, row, IsRow)
                at    == Positions(cells, what, 1)
            IN [i \in 1..Len(at) |-> Strip(cells[at[i]].t)]
    IN IF hdr # <<>> THEN Text(hdr[1], IsTh)
       ELSE IF rows # <<>> THEN Text(rows[1], IsCell)
       ELSE <<>>

\* data_rows: the GridRow / GridAlternateRow rows, or else every row but the first
DataRows(body) ==
    LET rows == Positions(body, IsRow, 1)
    IN IF Positions(body, IsDataRow, 1) # <<>> THEN Positions(body, IsDataRow, 1)
       ELSE IF Len(rows) > 1 THEN Tail(rows)
       ELSE <<>>

\* a cell's text (that of its links included) and the urls of its links
CellText(row, c) ==
    LET inner == BlockNodes(row, c, IsCell)
    IN Strip(row[c].t \o Concat([i \in 1..Len(inner) |-> inner[i].t]))

RECURSIVE RowFields(_, _, _, _)
RowFields(row, headers, result, i) ==
    IF i > Len(headers) THEN result
    ELSE LET cells == Positions(row, IsTd, 1)
             inner == BlockNodes(row, cells[i], IsCell)
             text  == Put(result, headers[i], CellText(row, cells[i]))
         IN RowFields(row, headers,
                      IF Positions(inner, IsLink, 1) # <<>>
                      THEN Put(text, headers[i] \o <<"_links">>, LinkUrls(inner))
                      ELSE text,
                      i + 1)

\* TableRecord for the rows with exactly as many cells as there are headers
TableRecord_ExactCells(row, headers) ==
    IF Len(Positions(row, IsTd, 1)) = Len(headers)
    THEN <<RowFields(row, headers, EmptyDict, 1)>>
    ELSE <<>>

\* the rows with at least as many cells as there are headers give a record each
TableRecord(row, headers) ==
    IF Len(Positions(row, IsTd, 1)) >= Len(headers)
    THEN <<RowFields(row, headers, EmptyDict, 1)>>
    ELSE <<>>

\* _parse_table_results with the loop over the rows ended at the first row that has
\* fewer cells than there are headers
_parse_table_results_UntilShort(body) ==
    LET headers == Headers(body)
        rows    == DataRows(body)
        Rec(p)  == TableRecord(BlockNodes(body, p, IsRow), headers)
        short   == {i \in 1..Len(rows) : Rec(rows[i]) = <<>>}
        last    == IF short = {} THEN Len(rows) ELSE Min(short) - 1
    IN IF headers = <<>> THEN <<>> ELSE Concat([i \in 1..last |-> Rec(rows[i])])

_parse_table_results(body) ==
    LET headers == Headers(body)
        rows    == DataRows(body)
        Rec(p)  == TableRecord(BlockNodes(body, p, IsRow), headers)
    IN IF headers = <<>> THEN <<>> ELSE Concat([i \in 1..Len(rows) |-> Rec(rows[i])])

(***************************************************************************)
(* _parse_text_results (FLAT_TEXT): the text of the div around the marker  *)
(***************************************************************************)

LTribunal    == <<"Tribunal", ":">>
LAto         == <<"Ato", ":">>
LReferencia  == <<"Referência", ":">>
LProcesso    == <<"Processo", ":">>
LEspecie     == <<"Espécie", ":">>
LData        == <<"Data", ":">>
LPropositura == <<"Data", " ", "da", " ", "propositura", " ", "da", " ", "ação", ":">>
LInsolvente  == <<"Insolvente", ":">>
LAdmin       == <<"Administrador", " ", "Insolvência", ":">>
LNif         == <<"NIF/NIPC", ":">>
LCredor      == <<"Credor", ":">>

KAto         == <<"Ato">>
KReferencia  == <<"Referência">>
KEspecie     == <<"Espécie">>
KPropositura == <<"Data", " ", "da", " ", "propositura", " ", "da", " ", "ação">>
KInsolvente  == <<"Insolvente">>
KAdmin       == <<"Administrador", " ", "Insolvência">>
KAdminNif    == <<"Administrador", " ", "NIF/NIPC">>

NoValue == [found |-> FALSE, g |-> <<>>, end |-> 0]

\* \s*([^\n]+) matched at position p: \s* gives back white space until a symbol
\* that is no line break follows; the group then runs to the end of the line
LineValueAt(s, p) ==
    LET qmax == SkipWs(s, p)
        ok   == {q \in p..qmax : q <= Len(s) /\ s[q] # "\n"}
    IN IF ok = {} THEN NoValue
       ELSE LET q == Max(ok)
                e == Min({f \in (q + 1)..(Len(s) + 1) : f = Len(s) + 1 \/ s[f] = "\n"})
            IN [found |-> TRUE, g |-> Slice(s, q, e), end |-> e]

\* re.search(label + r'\s*([^\n]+)', s)
LabelSearch(s, label) ==
    LET starts == {i \in 1..Len(s) :
                     LitAt(s, i, label) /\ LineValueAt(s, i + Len(label)).found}
    IN IF starts = {} THEN NoValue ELSE LineValueAt(s, Min(starts) + Len(label))

\* re.search(owner + r'.*?NIF/NIPC:\s*([^\n]+)', s, re.DOTALL)
OwnerNifSearch(s, owner) ==
    LET NifsAfter(i) == {j \in (i + Len(owner))..Len(s) :
                           LitAt(s, j, LNif) /\ LineValueAt(s, j + Len(LNif)).found}
        starts       == {i \in 1..Len(s) : LitAt(s, i, owner) /\ NifsAfter(i) # {}}
    IN IF starts = {} THEN NoValue
       ELSE LineValueAt(s, Min(NifsAfter(Min(starts))) + Len(LNif))

\* result[key] = match.group(1).strip(), when there is a match
WithMatch(result, key, m) == IF m.found THEN Put(result, key, Strip(m.g)) ELSE result

TextFields(section) ==
    LET r1  == WithMatch(EmptyDict, KTribunal, LabelSearch(section, LTribunal))
        r2  == WithMatch(r1, KAto, LabelSearch(section, LAto))
        r3  == WithMatch(r2, KReferencia, LabelSearch(section, LReferencia))
        r4  == WithMatch(r3, KProcesso, LabelSearch(section, LProcesso))
        r5  == WithMatch(r4, KEspecie, LabelSearch(section, LEspecie))
        r6  == WithMatch(r5, KData, LabelSearch(section, LData))
        r7  == WithMatch(r6, KPropositura, LabelSearch(section, LPropositura))
        r8  == WithMatch(r7, KInsolvente, LabelSearch(section, LInsolvente))
        r9  == WithMatch(r8, KNif, OwnerNifSearch(section, LInsolvente))
        r10 == WithMatch(r9, KAdmin, LabelSearch(section, LAdmin))
    IN WithMatch(r10, KAdminNif, OwnerNifSearch(section, LAdmin))

\* one match of r'Credor:\s*([^\n]+)(?:\s*NIF/NIPC:\s*([^\n]+))?' starting at i
TextCredorAt(s, i) ==
    LET m1 == LineValueAt(s, i + Len(LCredor))
        r  == SkipWs(s, m1.end)
        m2 == IF LitAt(s, r, LNif) THEN LineValueAt(s, r + Len(LNif)) ELSE NoValue
    IN IF ~(LitAt(s, i, LCredor) /\ m1.found)
       THEN [found |-> FALSE, g1 |-> <<>>, has2 |-> FALSE, g2 |-> <<>>, end |-> 0]
       ELSE [found |-> TRUE, g1 |-> m1.g, has2 |-> m2.found, g2 |-> m2.g,
             end |-> IF m2.found THEN m2.end ELSE m1.end]

\* re.finditer: the matches from position from on, leftmost first, not overlapping
RECURSIVE TextCredorMatches(_, _)
TextCredorMatches(s, from) ==
    LET starts == {i \in from..Len(s) : TextCredorAt(s, i).found}
    IN IF starts = {} THEN <<>>
       ELSE LET m == TextCredorAt(s, Min(starts))
            IN <<m>> \o TextCredorMatches(s, m.end)

TextCredor(m) ==
    LET credor_nome == Strip(m.g1)
        credor_nif  == IF m.has2 THEN Strip(m.g2) ELSE <<>>
    IN IF credor_nome # <<>>
       THEN << IF credor_nif # <<>>
               THEN Put(Put(EmptyDict, KNome, credor_nome), KNif, credor_nif)
               ELSE Put(EmptyDict, KNome, credor_nome) >>
       ELSE <<>>

TextCredores(section) ==
    LET matches == TextCredorMatches(section, 1)
    IN Concat([i \in 1..Len(matches) |-> TextCredor(matches[i])])

\* ProcessSections with a split that does not cut at the empty matches: the text is
\* one piece
ProcessSections_OnePiece(text) ==
    IF \E i \in 1..Len(text) : LitAt(text, i, LTribunal) THEN <<text>> ELSE <<>>

\* re.split(r'(?=Tribunal:)', text), without a first piece that has no 'Tribunal:'
ProcessSections(text) ==
    LET cuts   == {i \in 1..Len(text) : LitAt(text, i, LTribunal)}
        bounds == {1} \cup cuts \cup {Len(text) + 1}
        NextCut(i) == Min({j \in bounds : j > i})
        RECURSIVE From(_)
        From(i) == IF i > Len(text) THEN <<>>
                   ELSE <<Slice(text, i, NextCut(i))>> \o From(NextCut(i))
        pieces == IF 1 \in cuts THEN <<<<>>>> \o From(1)
                  ELSE IF text = <<>> THEN <<<<>>>> ELSE From(1)
        HasTribunal(p) == \E i \in 1..Len(p) : LitAt(p, i, LTribunal)
    IN IF pieces # <<>> /\ ~HasTribunal(pieces[1]) THEN Tail(pieces) ELSE pieces

\* the record of one section; a blank section gives none
TextRecord(section) ==
    IF Strip(section) = <<>> THEN [result |-> EmptyDict, credores |-> <<>>]
    ELSE [result |-> TextFields(section), credores |-> TextCredores(section)]

TextRecords(text) ==
    LET sections == ProcessSections(text)
    IN [i \in 1..Len(sections) |-> TextRecord(sections[i])]

_parse_text_results(text) == Expand(TextRecords(text))

(***************************************************************************)
(* Documents.  A document says which of the elements _parse_results looks  *)
(* for are in the page, and what each one holds:                           *)
(*   noResults  the span lblNoResults: "absent", "blank" (no text), "text" *)
(*   table      the table gvResults         [present, body]                *)
(*   div        the div divResultados       [present, body]                *)
(*   list       the span dlResultados       [present, body]                *)
(*   marker     the string 'Todos os tribunais': "absent", "bare" (in no   *)
(*              div) or "inDiv"; text is then the text of that div         *)
(***************************************************************************)

Node(k, a, t) == [k |-> k, a |-> a, t |-> t]

Absent      == [present |-> FALSE, body |-> <<>>]
Present(b)  == [present |-> TRUE, body |-> b]

Doc(n, t, d, l, m, x) ==
    [noResults |-> n, table |-> t, div |-> d, list |-> l, marker |-> m, text |-> x]

\* all sequences over S of length at most n
SeqsUpTo(S, n) == UNION {[1..k -> S] : k \in 0..n}

(***************************************************************************)
(* _parse_results                                                          *)
(***************************************************************************)

\* NoResultsMessage looked at only after the results table
NoResultsMessage_AfterTable(doc) == doc.noResults = "text" /\ ~doc.table.present

\* if no_results_msg and no_results_msg.text.strip():
NoResultsMessage(doc) == doc.noResults = "text"

\* Layout with Método 4 for the marker text wherever it is, in a div or not
Layout_AnyMarker(doc) ==
    IF doc.table.present THEN "TABLE"
    ELSE IF doc.div.present THEN "PANEL_LIST"
    ELSE IF doc.list.present THEN "LABELED_SPANS"
    ELSE IF doc.marker # "absent" THEN "FLAT_TEXT"
    ELSE "NONE"

\* Layout with Método 2 tried before Método 1
Layout_DivFirst(doc) ==
    IF doc.div.present THEN "PANEL_LIST"
    ELSE IF doc.table.present THEN "TABLE"
    ELSE IF doc.list.present THEN "LABELED_SPANS"
    ELSE IF doc.marker = "inDiv" THEN "FLAT_TEXT"
    ELSE "NONE"

\* the handler _parse_results hands the page to: Métodos 1 to 4, in this order
Layout(doc) ==
    IF doc.table.present THEN "TABLE"
    ELSE IF doc.div.present THEN "PANEL_LIST"
    ELSE IF doc.list.present THEN "LABELED_SPANS"
    ELSE IF doc.marker = "inDiv" THEN "FLAT_TEXT"
    ELSE "NONE"

\* the records (result, credores) the handler of the page builds, one per fragment
Records(doc) ==
    LET OfRow(r) == [result |-> r, credores |-> <<>>]
        rows     == _parse_table_results(doc.table.body)
    IN CASE Layout(doc) = "TABLE"         -> [i \in 1..Len(rows) |-> OfRow(rows[i])]
         [] Layout(doc) = "PANEL_LIST"    -> DivRecords(doc.div.body)
         [] Layout(doc) = "LABELED_SPANS" -> ListRecords(doc.list.body)
         [] Layout(doc) = "FLAT_TEXT"     -> TextRecords(doc.text)
         [] OTHER                         -> <<>>

\* what _parse_results returns and does: the handlers it ran, the rows, the log
_parse_results(doc) ==
    IF NoResultsMessage(doc)
    THEN [handlers |-> <<>>, results |-> <<>>, log |-> {"info: sem resultados"}]
    ELSE CASE Layout(doc) = "TABLE" ->
                [handlers |-> <<"TABLE">>,
                 results  |-> _parse_table_results(doc.table.body), log |-> {}]
           [] Layout(doc) = "PANEL_LIST" ->
                [handlers |-> <<"PANEL_LIST">>,
                 results  |-> _parse_div_results(doc.div.body), log |-> {}]
           [] Layout(doc) = "LABELED_SPANS" ->
                [handlers |-> <<"LABELED_SPANS">>,
                 results  |-> _parse_list_results(doc.list.body), log |-> {}]
           [] Layout(doc) = "FLAT_TEXT" ->
                [handlers |-> <<"FLAT_TEXT">>,
                 results  |-> _parse_text_results(doc.text), log |-> {}]
           [] OTHER ->
                [handlers |-> <<>>, results |-> <<>>,
                 log |-> {"warning: nenhum formato reconhecido"}]

(***************************************************************************)
(* save_to_csv                                                             *)
(***************************************************************************)

important_fields == <<KTribunal, KProcesso, KData, KInsolvente, KNif, KCredor, KCredorNif>>

\* the keys the model's pages can give, in the order Python's sorted() puts them
KeyOrder ==
    << <<>>, KAdmin, KAdminNif, KAto, KConteudo, KCredor, KCredorNif, KData,
       KPropositura, KDescricao, KEspecie, KInsolvente, KInterveniente, KLinks, KNif,
       KProcesso, KProcesso \o <<"_links">>, KReferencia, KTribunal,
       KTribunal \o <<"_links">> >>

\* the members of keys, in the order of seq
InOrder(seq, keys) ==
    LET Keep(k) == IF k \in keys THEN <<k>> ELSE <<>>
    IN Concat([i \in 1..Len(seq) |-> Keep(seq[i])])

\* headers: the keys of all rows
AllKeys(results) == UNION {DOMAIN results[i] : i \in 1..Len(results)}

\* OrderedHeaders with all the keys sorted, the important fields not first
OrderedHeaders_AllSorted(results) == InOrder(KeyOrder, AllKeys(results))

\* ordered_headers: the important fields that occur, then the others, sorted
OrderedHeaders(results) ==
    LET headers == AllKeys(results)
        first   == InOrder(important_fields, headers)
    IN first \o InOrder(KeyOrder, headers \ {first[i] : i \in 1..Len(first)})

\* csv.DictWriter: a row's cells in the order of the header, blank where it has no key
CsvRow(row, header) ==
    [j \in 1..Len(header) |-> IF header[j] \in DOMAIN row THEN row[header[j]] ELSE <<>>]

CsvContent(results) ==
    LET header == OrderedHeaders(results)
    IN [kind |-> "csv", complete |-> TRUE, header |-> header,
        rows |-> [i \in 1..Len(results) |-> CsvRow(results[i], header)]]

\* json.dump(results, ...): the list as it is
JsonContent(results) ==
    [kind |-> "json", complete |-> TRUE, header |-> <<>>, rows |-> results]

\* output_file.replace('.csv', '.json'), a path being a sequence of name parts
JsonPath(path) == [i \in 1..Len(path) |-> IF path[i] = ".csv" THEN ".json" ELSE path[i]]

\* what open() and the writes leave behind: "ok", or a failure at open (no file is
\* made) or in the middle of the write (a truncated file is left)
WriteOutcomes == {"ok", "open_fails", "write_fails"}

WriteFile(fs, path, content, outcome) ==
    CASE outcome = "ok"          -> Put(fs, path, content)
      [] outcome = "write_fails" -> Put(fs, path, [content EXCEPT !.complete = FALSE,
                                                                  !.rows = <<>>])
      [] OTHER                   -> fs

\* the body of save_to_csv for a non-empty list: one try block around both writes
SaveBoth(fs, results, path, csv, json) ==
    LET afterCsv == WriteFile(fs, path, CsvContent(results), csv)
    IN IF csv # "ok"
       THEN [files |-> afterCsv, attempted |-> {"csv"},
             log |-> {"error: erro ao salvar resultados"}]
       ELSE [files     |-> WriteFile(afterCsv, JsonPath(path), JsonContent(results), json),
             attempted |-> {"csv", "json"},
             log       |-> IF json # "ok" THEN {"error: erro ao salvar resultados"} ELSE {}]

\* save_to_csv without the  if not results: return  guard
save_to_csv_NoGuard(fs, results, path, csv, json) == SaveBoth(fs, results, path, csv, json)

save_to_csv(fs, results, path, csv, json) ==
    IF results = <<>>
    THEN [files |-> fs, attempted |-> {}, log |-> {"warning: nenhum resultado para salvar"}]
    ELSE SaveBoth(fs, results, path, csv, json)

(***************************************************************************)
(* display_results_table                                                   *)
(***************************************************************************)

\* f"{result.get('Tribunal', '')}-{result.get('Processo', '')}"
processo_key(result) ==
    (IF KTribunal \in DOMAIN result THEN result[KTribunal] ELSE <<>>) \o <<"-">>
        \o (IF KProcesso \in DOMAIN result THEN result[KProcesso] ELSE <<>>)

\* the blocks shown, in order: one for each key of processos, which gets its keys
\* from the rows with a 'Credor', with the number of creditors listed under the key
display_results_table(results) ==
    LET with      == {i \in 1..Len(results) : KCredor \in DOMAIN results[i]}
        Same(i)   == {j \in with : processo_key(results[j]) = processo_key(results[i])}
        Block(i)  == IF i \in with /\ Min(Same(i)) = i
                     THEN <<[processo_key |-> processo_key(results[i]),
                             total        |-> Cardinality(Same(i))]>>
                     ELSE <<>>
    IN Concat([i \in 1..Len(results) |-> Block(i)])

(***************************************************************************)
(* The pages and arguments the model runs on                               *)
(***************************************************************************)

\* the most nodes in the body of a results div or results span
MaxNodes == 3
\* the most lines of flat text after the marker line
MaxLines == 4
\* the most rows of a results table
MaxRows == 2
\* the most nodes after the anchors in a fragment with labels
MaxLabels == 4

ResultDivNode  == Node("div", "resultadocdital", <<>>)
ItemNode       == Node("item", "", <<>>)
SpanProcesso   == Node("span", "lblProcesso", <<"p1">>)
SpanTribunal   == Node("span", "lblTribunal", <<"t1">>)
SpanCredor1    == Node("span", "", <<"Credor", ":", " ", "c1">>)
SpanCredor2    == Node("span", "", <<"Credor", ":", " ", "c2", " ", "NIF/NIPC", ":", " ", "n2">>)
StrongProcesso == Node("strong", "", <<"Processo", ":">>)
StrongEmpty    == Node("strong", "", <<>>)
TextP2         == Node("text", "", <<" ", "p2">>)
LinkNoHref     == Node("a", "", <<>>)
LinkHref       == Node("a", "edital.pdf", <<"ver">>)
Br             == Node("br", "", <<>>)

DivNodes ==
    {ResultDivNode, SpanProcesso, SpanTribunal, SpanCredor1, SpanCredor2,
     StrongProcesso, StrongEmpty, TextP2, LinkNoHref}

\* the bodies of a results div of at most n nodes
DivBodies(n) == SeqsUpTo(DivNodes, n)

\* a results span whose child spans each hold one block of a results div: either
\* the block as a div of class resultadocdital, or its nodes directly
AsListBody(body, wrapped) ==
    LET Item(n) == IF n.k # "div" THEN <<n>>
                   ELSE IF wrapped THEN <<ItemNode, n>> ELSE <<ItemNode>>
    IN Concat([i \in 1..Len(body) |-> Item(body[i])])

ListBodies(n) == {AsListBody(b, w) : b \in DivBodies(n), w \in BOOLEAN}

MarkerLine == <<"Todos", " ", "os", " ", "tribunais">>

TextLines ==
    { <<"Tribunal", ":", " ", "t1">>,
      <<"Insolvente", ":", " ", "i1">>,
      <<"NIF/NIPC", ":", " ", "n1">>,
      <<"Credor", ":", " ", "c1">>,
      <<"Credor", ":", " ", "c2", " ", "NIF/NIPC", ":", " ", "n2">>,
      <<"Credor", ":">> }

\* the text of the div around the marker: the marker line, then the lines
TextOf(lines) == Join(<<MarkerLine>> \o lines, <<"\n">>)

FlatTexts(n) == {TextOf(ls) : ls \in SeqsUpTo(TextLines, n)}

HeaderCells == {Node("th", "", <<"Tribunal">>), Node("th", "", <<"Processo">>)}
DataCells   == {Node("td", "", <<"v1">>)}

\* rows of at most two cells: header rows of th cells, data rows of td cells, and
\* rows without a class of any cells
TableRows ==
    {<<Node("tr", "GridHeader", <<>>)>> \o cells : cells \in SeqsUpTo(HeaderCells, 2)}
    \cup {<<Node("tr", "GridRow", <<>>)>> \o cells : cells \in SeqsUpTo(DataCells, 2)}
    \cup {<<Node("tr", "", <<>>)>> \o cells :
             cells \in SeqsUpTo(HeaderCells \cup DataCells, 2)}

TableBodies(n) == {Join(rows, <<>>) : rows \in SeqsUpTo(TableRows, n)}

\* pages with a results table of a header row and at most MaxRows rows after it: the
\* header row of class GridHeader or of none, the others of class GridRow or of
\* none, every row of at most two cells
GridDocs ==
    {Doc("absent", Present(Join(<<hdr>> \o rows, <<>>)), Absent, Absent, "absent", <<>>) :
        hdr \in {<<Node("tr", c, <<>>)>> \o cells :
                    c \in {"GridHeader", ""}, cells \in SeqsUpTo(HeaderCells, 2)},
        rows \in SeqsUpTo({<<Node("tr", c, <<>>)>> \o cells :
                              c \in {"GridRow", ""},
                              cells \in SeqsUpTo({Node("td", "", <<"v1">>),
                                                  Node("td", "", <<"v2">>)}, 2)},
                          MaxRows)}

\* pages for the strategies of one fragment and for the candidates of a handler:
\*   a results div, or a results span with one item, whose one fragment has no, one
\*   or two anchors and then at most n strong tags, texts and line breaks;
\*   flat text of lines with one label or two, or with a label and nothing after it;
\*   a results div of at most MaxNodes + 2 nodes, of fragments with or without an
\*   anchor and a creditor;
\*   a results table of a header row and at most MaxRows + 1 data rows of no, one or
\*   two cells;
\*   a results div whose first div, with the class of a result or without, holds at
\*   most MaxNodes nested divs, anchors and creditors
CaseDocs(n) ==
    LET anchors == {<<>>, <<SpanProcesso>>, <<SpanProcesso, SpanTribunal>>}
        labels  == SeqsUpTo({StrongProcesso, Node("strong", "", <<"Tribunal", ":">>),
                             TextP2, Br}, n)
        lines   == SeqsUpTo({ <<"Tribunal", ":", " ", "t1">>,
                              <<"Tribunal", ":", " ", "t1", " ", "Processo", ":", " ", "p1">>,
                              <<"Tribunal", ":">>,
                              <<"Processo", ":", " ", "p2">> }, MaxLines)
        blocks  == SeqsUpTo({ResultDivNode, SpanProcesso, SpanCredor1}, MaxNodes + 2)
        hdrs    == {<<Node("tr", "GridHeader", <<>>)>> \o cells :
                       cells \in [1..1 -> HeaderCells] \cup [1..2 -> HeaderCells]}
        rows    == SeqsUpTo({<<Node("tr", "GridRow", <<>>)>> \o cells :
                                cells \in {<<>>, <<Node("td", "", <<"v1">>)>>,
                                           <<Node("td", "", <<"v2">>)>>,
                                           <<Node("td", "", <<"v1">>), Node("td", "", <<"v2">>)>>}},
                            MaxRows + 1)
        nested  == SeqsUpTo({Node("subdiv", "", <<>>), Node("subdiv", "resultadocdital", <<>>),
                             SpanProcesso, SpanCredor1}, MaxNodes)
    IN {Doc("absent", Absent, Present(<<ResultDivNode>> \o a \o l), Absent, "absent", <<>>) :
           a \in anchors, l \in labels}
       \cup {Doc("absent", Absent, Absent, Present(<<ItemNode, ResultDivNode>> \o a \o l),
                 "absent", <<>>) : a \in anchors, l \in labels}
       \cup {Doc("absent", Absent, Absent, Absent, "inDiv", TextOf(ls)) : ls \in lines}
       \cup {Doc("absent", Absent, Present(b), Absent, "absent", <<>>) : b \in blocks}
       \cup {Doc("absent", Present(Join(<<h>> \o r, <<>>)), Absent, Absent, "absent", <<>>) :
                 h \in hdrs, r \in rows}
       \cup {Doc("absent", Absent, Present(<<d>> \o n2), Absent, "absent", <<>>) :
                 d \in {ResultDivNode, Node("div", "", <<>>)}, n2 \in nested}

NoPage == Doc("absent", Absent, Absent, Absent, "absent", <<>>)

\* pages with one results element, of every shape within the bounds
HandlerDocs(nodes, lines, rows) ==
    {Doc("absent", Present(b), Absent, Absent, "absent", <<>>) : b \in TableBodies(rows)}
    \cup {Doc("absent", Absent, Present(b), Absent, "absent", <<>>) : b \in DivBodies(nodes)}
    \cup {Doc("absent", Absent, Absent, Present(b), "absent", <<>>) : b \in ListBodies(nodes)}
    \cup {Doc("absent", Absent, Absent, Absent, "inDiv", x) : x \in FlatTexts(lines)}

TableSample ==
    << Node("tr", "GridHeader", <<>>), Node("th", "", <<"Tribunal">>),
       Node("th", "", <<"Processo">>),
       Node("tr", "GridRow", <<>>), Node("td", "", <<"t1">>), Node("td", "", <<"p1">>),
       LinkHref,
       Node("tr", "GridAlternateRow", <<>>), Node("td", "", <<"t2">>) >>

DivSample ==
    << ResultDivNode, SpanProcesso, SpanTribunal,
       Node("span", "lblInterveniente", <<"i1">>), Node("span", "lblDescricao", <<"d1">>),
       SpanCredor1, SpanCredor2, LinkHref,
       ResultDivNode, StrongProcesso, TextP2, Br >>

ListSample ==
    << ItemNode, ResultDivNode, SpanProcesso, SpanCredor1,
       ItemNode, Node("text", "", <<"texto", " ", "livre", " ", "longo">>) >>

TextSample ==
    TextOf(<< <<"Tribunal", ":", " ", "t1">>, <<"Processo", ":", " ", "p1">>,
              <<"Tribunal", ":", " ", "t2">>, <<"Credor", ":", " ", "c1">>,
              <<"Credor", ":", " ", "c2">>, <<"NIF/NIPC", ":", " ", "n2">> >>)

\* pages with any combination of the elements _parse_results looks for
PipelineDocs ==
    {Doc(n, t, d, l, m[1], m[2]) :
        n \in {"absent", "blank", "text"},
        t \in {Absent, Present(TableSample)},
        d \in {Absent, Present(<<>>), Present(DivSample)},
        l \in {Absent, Present(ListSample)},
        m \in {<<"absent", <<>>>>, <<"bare", <<>>>>, <<"inDiv", MarkerLine>>,
               <<"inDiv", TextSample>>}}

\* --nif / --designacao (search can also be called with neither)
Queries == {"nif", "designacao", "none"}

\* --output
OutputFiles == {<<"resultados_citius", ".csv">>, <<"resultados">>}

(***************************************************************************)
(* The run: main calls search, then save_to_csv                            *)
(***************************************************************************)

VARIABLES
    pc,           \* where the run is: "start", "form", "post", "parse", "save", "done",
                  \* or "crashed" (an exception nobody catches)
    query,        \* the search key given
    output_file,  \* the path given
    attempt,      \* get_form_data calls made so far
    form_data,    \* whether get_form_data has returned the hidden fields
    posts,        \* search POSTs sent so far
    doc,          \* the page the POST returned
    handlers,     \* the layout handlers _parse_results has run
    results,      \* the list search returns
    log,          \* the diagnostics printed so far
    files,        \* the output files: path -> content
    attempted     \* the artifacts save_to_csv has tried to write

vars == <<pc, query, output_file, attempt, form_data, posts, doc, handlers, results,
          log, files, attempted>>

\* search(..., max_retries=3)
max_retries == 3

Init ==
    /\ pc = "start"
    /\ query \in Queries
    /\ output_file \in OutputFiles
    /\ attempt = 0
    /\ form_data = FALSE
    /\ posts = 0
    /\ doc = NoPage
    /\ handlers = <<>>
    /\ results = <<>>
    /\ log = {}
    /\ files = EmptyDict
    /\ attempted = {}

\* search: without nif and designacao it returns [] at once
Validate ==
    /\ pc = "start"
    /\ IF query = "none"
       THEN /\ pc' = "save"
            /\ log' = log \cup {"error: é necessário fornecer NIF ou designação"}
       ELSE /\ pc' = "form"
            /\ UNCHANGED log
    /\ UNCHANGED <<query, output_file, attempt, form_data, posts, doc, handlers, results,
                   files, attempted>>

\* GetFormData with one more turn of the retry loop than max_retries
GetFormData_OneMore ==
    /\ pc = "form"
    /\ attempt < max_retries + 1
    /\ attempt' = attempt + 1
    /\ \E ok \in BOOLEAN :
          IF ok
          THEN /\ form_data' = TRUE
               /\ pc' = "post"
               /\ UNCHANGED log
          ELSE /\ UNCHANGED form_data
               /\ pc' = IF attempt < max_retries THEN "form" ELSE "save"
               /\ log' = log \cup {"warning: tentativa falhou"}
    /\ UNCHANGED <<query, output_file, posts, doc, handlers, results, files, attempted>>

\* search: one turn of the retry loop; after max_retries failures it returns []
GetFormData ==
    /\ pc = "form"
    /\ attempt < max_retries
    /\ attempt' = attempt + 1
    /\ \E ok \in BOOLEAN :
          IF ok
          THEN /\ form_data' = TRUE
               /\ pc' = "post"
               /\ UNCHANGED log
          ELSE /\ UNCHANGED form_data
               /\ pc' = IF attempt + 1 < max_retries THEN "form" ELSE "save"
               /\ log' = log \cup
                     (IF attempt + 1 < max_retries THEN {"warning: tentativa falhou"}
                      ELSE {"warning: tentativa falhou",
                            "error: não foi possível obter dados do formulário"})
    /\ UNCHANGED <<query, output_file, posts, doc, handlers, results, files, attempted>>

\* search: the POST, which fails, or returns a page of pages
Post(pages) ==
    /\ pc = "post"
    /\ form_data
    /\ posts' = posts + 1
    /\ \/ /\ pc' = "save"                    \* requests.RequestException: return []
          /\ log' = log \cup {"error: erro ao realizar pesquisa"}
          /\ UNCHANGED doc
       \/ /\ pc' = "crashed"                 \* debug_results_page.html cannot be written
          /\ log' = log \cup {"error: traceback"}
          /\ UNCHANGED doc
       \/ \E d \in pages :
             /\ doc' = d
             /\ pc' = "parse"
             /\ UNCHANGED log
    /\ UNCHANGED <<query, output_file, attempt, form_data, handlers, results, files,
                   attempted>>

\* search: return self._parse_results(response.text)
ParseResults ==
    /\ pc = "parse"
    /\ LET r == _parse_results(doc)
       IN /\ handlers' = handlers \o r.handlers
          /\ results' = r.results
          /\ log' = log \cup r.log
    /\ pc' = "save"
    /\ UNCHANGED <<query, output_file, attempt, form_data, posts, doc, files, attempted>>

\* main: scraper.save_to_csv(results, args.output), and the summary
SaveToCsv ==
    /\ pc = "save"
    /\ \E csv \in WriteOutcomes, json \in WriteOutcomes :
          LET r == save_to_csv(files, results, output_file, csv, json)
          IN /\ files' = r.files
             /\ attempted' = attempted \cup r.attempted
             /\ log' = log \cup r.log
    /\ pc' = "done"
    /\ UNCHANGED <<query, output_file, attempt, form_data, posts, doc, handlers, results>>

PostPipeline == Post(PipelineDocs)

Next == Validate \/ GetFormData \/ PostPipeline \/ ParseResults \/ SaveToCsv

Spec == Init /\ [][Next]_vars

\* the whole run, which goes on as long as it has a step to take
FairSpec == Spec /\ WF_vars(Next)

(***************************************************************************)
(* The layout handlers alone: runs that start when get_form_data has       *)
(* returned, take a page with one results element and parse it             *)
(***************************************************************************)

InitParse ==
    /\ pc = "post"
    /\ query = "nif"
    /\ output_file = <<"resultados_citius", ".csv">>
    /\ attempt = 1
    /\ form_data = TRUE
    /\ posts = 0
    /\ doc = NoPage
    /\ handlers = <<>>
    /\ results = <<>>
    /\ log = {}
    /\ files = EmptyDict
    /\ attempted = {}

PostHandlerDoc == Post(HandlerDocs(MaxNodes, MaxLines, MaxRows))

NextParse == PostHandlerDoc \/ ParseResults

SpecParse == InitParse /\ [][NextParse]_vars

(***************************************************************************)
(* The table handler and the export: runs that take a page with a results  *)
(* table, parse it and save the records                                    *)
(***************************************************************************)

PostGridDoc == Post(GridDocs)

NextGrid == PostGridDoc \/ ParseResults \/ SaveToCsv

\* get_form_data has returned; the output path is either of the two
InitGrid ==
    /\ pc = "post"
    /\ query = "nif"
    /\ output_file \in OutputFiles
    /\ attempt = 1
    /\ form_data = TRUE
    /\ posts = 0
    /\ doc = NoPage
    /\ handlers = <<>>
    /\ results = <<>>
    /\ log = {}
    /\ files = EmptyDict
    /\ attempted = {}

SpecGrid == InitGrid /\ [][NextGrid]_vars

(***************************************************************************)
(* The strategies for the fields of a fragment: runs that take a page with *)
(* one fragment, or with flat text, and parse it                           *)
(***************************************************************************)

PostCaseDoc == Post(CaseDocs(MaxLabels))

NextCases == PostCaseDoc \/ ParseResults

SpecCases == InitParse /\ [][NextCases]_vars

(***************************************************************************)
(* Properties of _parse_results                                            *)
(***************************************************************************)

\* search has returned what _parse_results made of the page in doc
Parsed ==
    /\ pc \in {"save", "done"}
    /\ posts = 1
    /\ "error: erro ao realizar pesquisa" \notin log

\* the one handler the priority order gives the page, flat being whether the page
\* has the anchor of the flat-text handler
PriorityChoice(flat) ==
    IF doc.table.present THEN <<"TABLE">>
    ELSE IF doc.div.present THEN <<"PANEL_LIST">>
    ELSE IF doc.list.present THEN <<"LABELED_SPANS">>
    ELSE IF flat THEN <<"FLAT_TEXT">>
    ELSE <<>>

\* C1, as stated: for a page without the 'no results' element, the handlers run are
\* exactly the one the priority order gives (table, results div, results span, the
\* marker text 'Todos os tribunais', else none)
C1_HandlerByPriority ==
    Parsed /\ doc.noResults = "absent"
        => handlers = PriorityChoice(doc.marker # "absent")

\* C1, amended: the same, the flat-text handler running for the marker text only
\* when that text lies inside a div
C1_HandlerByPriorityInDiv ==
    Parsed /\ doc.noResults = "absent"
        => handlers = PriorityChoice(doc.marker = "inDiv")

\* a page with all four anchors has been parsed, by the table handler alone
C1_AllAnchorsTableRuns ==
    /\ Parsed
    /\ doc.noResults = "absent"
    /\ doc.table.present /\ doc.div.present /\ doc.list.present
    /\ doc.marker = "inDiv"
    /\ handlers = <<"TABLE">>

\* C2, as stated: when the 'no results' element is in the page, no handler runs and
\* the result list is empty, whatever else the page holds
C2_NoResultsElementShortCircuits ==
    Parsed /\ doc.noResults # "absent" => handlers = <<>> /\ results = <<>>

\* C2, amended: when the 'no results' element is in the page with a text that is not
\* blank, no handler runs and the result list is empty, whatever else the page holds
C2_NoResultsTextShortCircuits ==
    Parsed /\ doc.noResults = "text" => handlers = <<>> /\ results = <<>>

\* a page with the 'no results' text and a results table and div has been parsed
C2_NoResultsTextWithTable ==
    /\ Parsed
    /\ doc.noResults = "text"
    /\ doc.table.present /\ doc.div.present
    /\ handlers = <<>> /\ results = <<>>
    /\ "info: sem resultados" \in log

(***************************************************************************)
(* Properties of the handlers' rows                                        *)
(***************************************************************************)

\* the page went to a handler that extracts creditors
ExtractsCreditors ==
    handlers \in {<<"PANEL_LIST">>, <<"LABELED_SPANS">>, <<"FLAT_TEXT">>}

\* the records of the page that the handler recognizes, in document order
Recognized == SelectSeq(Records(doc), HasContent)

\* max(1, number of creditors)
RowsFor(rec) == Max({1, Len(rec.credores)})

SumRows(recs) ==
    LET F[i \in 0..Len(recs)] == IF i = 0 THEN 0 ELSE F[i - 1] + RowsFor(recs[i])
    IN F[Len(recs)]

\* the rows before those of the i-th recognized record
RowsBefore(i) == SumRows(SubSeq(Recognized, 1, i - 1))

CarriesRecord(row, rec) ==
    /\ \A k \in DOMAIN rec.result \ {KCredor, KCredorNif} :
          k \in DOMAIN row /\ row[k] = rec.result[k]
    /\ DOMAIN row \subseteq DOMAIN rec.result \cup {KCredor, KCredorNif}

\* row has the creditor's name and, when it has one, the tax id; no other tax id
CarriesCreditor(row, credor) ==
    /\ KCredor \in DOMAIN row
    /\ row[KCredor] = credor[KNome]
    /\ IF KNif \in DOMAIN credor
       THEN KCredorNif \in DOMAIN row /\ row[KCredorNif] = credor[KNif]
       ELSE KCredorNif \notin DOMAIN row

\* C4: the c-th row of a record with creditors carries the record's fields with the
\* record's values, the c-th creditor's name under 'Credor' and its tax id, when it
\* has one, under 'Credor NIF/NIPC', and nothing of another record or creditor
C4_RowCarriesRecordAndCreditor ==
    Parsed /\ ExtractsCreditors =>
        \A i \in 1..Len(Recognized) :
            \A c \in 1..Len(Recognized[i].credores) :
                /\ RowsBefore(i) + c \in DOMAIN results
                /\ CarriesRecord(results[RowsBefore(i) + c], Recognized[i])
                /\ CarriesCreditor(results[RowsBefore(i) + c], Recognized[i].credores[c])

\* a handler has given a record with a field and two creditors, the second with a
\* tax id and the first without
C4_TwoCreditorsOneWithTaxId ==
    /\ Parsed
    /\ ExtractsCreditors
    /\ \E i \in 1..Len(Recognized) :
          /\ KTribunal \in DOMAIN Recognized[i].result
          /\ Len(Recognized[i].credores) = 2
          /\ KNif \notin DOMAIN Recognized[i].credores[1]
          /\ KNif \in DOMAIN Recognized[i].credores[2]
    /\ Len(results) >= 2

(***************************************************************************)
(* Properties of save_to_csv and of the whole run                          *)
(***************************************************************************)

\* the file at path is there, whole, and of the kind
Written(path, kind) ==
    /\ path \in DOMAIN files
    /\ files[path].kind = kind
    /\ files[path].complete

\* an error has been printed (by the program, or as a traceback)
ErrorReported ==
    \E e \in log :
        e \in {"error: é necessário fornecer NIF ou designação",
               "error: não foi possível obter dados do formulário",
               "error: erro ao realizar pesquisa",
               "error: erro ao salvar resultados",
               "error: traceback"}

\* C5: the JSON file has one entry per case record, the creditors nested in it: as
\* many entries as records were recognized, none of them a per-creditor row
C5_JsonOneEntryPerRecord ==
    pc = "done" /\ Parsed /\ Written(JsonPath(output_file), "json") =>
        /\ Len(files[JsonPath(output_file)].rows) = Len(Recognized)
        /\ \A i \in 1..Len(Recognized) :
              KCredor \notin DOMAIN files[JsonPath(output_file)].rows[i]

\* C6: with a non-empty result list, both writes are attempted, whichever fails
C6_BothWritesAttempted ==
    pc = "done" /\ results # <<>> => attempted = {"csv", "json"}

\* C7, as stated: a run that extracts no record, without a failure, ends with both
\* output files written
C7_NoRecordsBothFiles ==
    pc = "done" /\ Parsed /\ results = <<>> =>
        /\ output_file \in DOMAIN files
        /\ JsonPath(output_file) \in DOMAIN files

\* C7, amended: a run that extracts no record, without a failure, ends with the
\* warning that there is nothing to save and with neither output file written
C7_NoRecordsNoFiles ==
    pc = "done" /\ Parsed /\ results = <<>> =>
        /\ DOMAIN files = {}
        /\ attempted = {}
        /\ "warning: nenhum resultado para salvar" \in log

\* a run has ended whose page had a results div with no valid record in it
C7_EmptyResultsDivRun ==
    /\ pc = "done"
    /\ Parsed
    /\ handlers = <<"PANEL_LIST">>
    /\ results = <<>>
    /\ DOMAIN files = {}

\* C8: at the end of a run, either both export files are there, or neither, or an
\* error was reported
C8_NoSilentPartialExport ==
    pc = "done" =>
        \/ Written(output_file, "csv") /\ Written(JsonPath(output_file), "json")
        \/ DOMAIN files = {}
        \/ ErrorReported

(***************************************************************************)
(* Properties of the fields of a record                                    *)
(***************************************************************************)

\* C9: every row a handler returns has a field that is neither the link list nor a
\* creditor column, with a name or a value that is not empty
C9_RowHasSemanticField ==
    Parsed =>
        \A i \in 1..Len(results) :
            \E k \in DOMAIN results[i] :
                /\ k \notin {KLinks, KCredor, KCredorNif}
                /\ (k # <<>> \/ results[i][k] # <<>>)

\* the fragments the anchor and label strategies are applied to, one per record of
\* Records(doc)
Fragments ==
    CASE handlers = <<"PANEL_LIST">> ->
            [i \in 1..Len(ResultItems(doc.div.body)) |->
                DivBlock(doc.div.body, ResultItems(doc.div.body)[i])]
      [] handlers = <<"LABELED_SPANS">> ->
            [i \in 1..Len(Positions(doc.list.body, IsItem, 1)) |->
                LET inner == BlockNodes(doc.list.body,
                                        Positions(doc.list.body, IsItem, 1)[i], IsItem)
                    divs  == Positions(inner, IsResultDiv, 1)
                IN IF divs = <<>> THEN <<>> ELSE BlockNodes(inner, divs[1], IsDiv)]
      [] OTHER -> <<>>

\* the rows before those of the i-th record of Records(doc)
RowsBeforeRecord(i) == SumRows(SelectSeq(SubSeq(Records(doc), 1, i - 1), HasContent))

\* C10: in every row of a record, each field that the anchor strategy finds in the
\* record's fragment has the value the anchor gives it
C10_AnchorValueWins ==
    Parsed =>
        \A i \in 1..Len(Fragments) :
            HasContent(Records(doc)[i]) =>
                \A j \in 1..RowsFor(Records(doc)[i]) :
                    \A k \in DOMAIN AnchorFields(Fragments[i], EmptyDict, 1) :
                        /\ RowsBeforeRecord(i) + j \in DOMAIN results
                        /\ k \in DOMAIN results[RowsBeforeRecord(i) + j]
                        /\ results[RowsBeforeRecord(i) + j][k]
                              = AnchorFields(Fragments[i], EmptyDict, 1)[k]

(***************************************************************************)
(* Properties of the 'Conteúdo' fallback and of the creditor matching      *)
(***************************************************************************)

\* C11: a row has the fallback field 'Conteúdo' only for a fragment whose flattened
\* text is longer than MinContentLen characters
C11_ContentOnlyWhenLong ==
    Parsed =>
        \A i \in 1..Len(results) :
            KConteudo \in DOMAIN results[i] =>
                CharLen(results[i][KConteudo]) > MinContentLen

\* the value has the symbol among its symbols
Includes(value, symbol) == \E j \in 1..Len(value) : value[j] = symbol

\* C12: the creditor's name in a row (one that starts with a name, not with a label)
\* never includes the 'NIF/NIPC' label: what follows the label is the tax id
C12_NameExcludesTaxIdLabel ==
    Parsed /\ ExtractsCreditors =>
        \A i \in 1..Len(results) :
            (KCredor \in DOMAIN results[i]
             /\ ~Includes(<<Head(LNif), Head(LCredor)>>, Head(results[i][KCredor])))
                => ~Includes(results[i][KCredor], Head(LNif))

\* the nodes of the i-th item of the results span
ItemNodes(i) ==
    BlockNodes(doc.list.body, Positions(doc.list.body, IsItem, 1)[i], IsItem)

\* C13: the rows of a record of the results span, with or without an inner result
\* div, carry the creditors that the same nodes give as a record of the results div:
\* one row per creditor, with the creditor's name
C13_SameCreditorsInEveryPath ==
    Parsed /\ handlers = <<"LABELED_SPANS">> =>
        \A i \in 1..Len(Records(doc)) :
            HasContent(Records(doc)[i]) =>
                \A c \in 1..Len(Credores(ItemNodes(i))) :
                    /\ RowsBeforeRecord(i) + c \in DOMAIN results
                    /\ KCredor \in DOMAIN results[RowsBeforeRecord(i) + c]
                    /\ results[RowsBeforeRecord(i) + c][KCredor]
                          = Credores(ItemNodes(i))[c][KNome]

\* the value starts with a label: a word and a colon
StartsWithLabel(value) == Len(value) >= 2 /\ value[2] = ":"

\* C14: the creditor's name in a row is not empty, and it is not the text of the line
\* or of the label that follows a 'Credor:' with nothing after it
C14_NameNotFromNextLine ==
    Parsed /\ ExtractsCreditors =>
        \A i \in 1..Len(results) :
            KCredor \in DOMAIN results[i] =>
                /\ results[i][KCredor] # <<>>
                /\ ~StartsWithLabel(results[i][KCredor])

(***************************************************************************)
(* Properties of the order of the rows                                     *)
(***************************************************************************)

\* the text of the nodes, one after the other, a line break after each
NodesText(nodes) == Concat([i \in 1..Len(nodes) |-> nodes[i].t \o <<"\n">>])

\* the text of the results element the handler was given
PageText ==
    CASE handlers = <<"PANEL_LIST">>    -> NodesText(doc.div.body)
      [] handlers = <<"LABELED_SPANS">> -> NodesText(doc.list.body)
      [] handlers = <<"FLAT_TEXT">>     -> doc.text
      [] OTHER                          -> <<>>

\* the first place at or after from where value is in text, or 0
FindFrom(text, value, from) ==
    LET at == {p \in from..(Len(text) + 1 - Len(value)) :
                  SubSeq(text, p, p + Len(value) - 1) = value}
    IN IF at = {} THEN 0 ELSE Min(at)

\* the values are in text one after the other, in the order of values
InOrderIn(values, text) ==
    LET After[k \in 0..Len(values)] ==
            IF k = 0 THEN 1
            ELSE IF After[k - 1] = 0 \/ FindFrom(text, values[k], After[k - 1]) = 0 THEN 0
            ELSE FindFrom(text, values[k], After[k - 1]) + Len(values[k])
    IN After[Len(values)] # 0

\* the creditors' names of the rows, in the order of the rows
RowCreditors ==
    Concat([i \in 1..Len(results) |->
               IF KCredor \in DOMAIN results[i] THEN <<results[i][KCredor]>> ELSE <<>>])

\* C15: the creditors' names of the rows are in the page in the order of the rows, and
\* the rows of a recognized record are together, after those of the records before
\* it: the c-th of them has the name of the record's c-th creditor
C15_RowsInDocumentOrder ==
    Parsed /\ ExtractsCreditors =>
        /\ InOrderIn(RowCreditors, PageText)
        /\ \A i \in 1..Len(Recognized) :
              \A c \in 1..Len(Recognized[i].credores) :
                  /\ RowsBefore(i) + c \in DOMAIN results
                  /\ KCredor \in DOMAIN results[RowsBefore(i) + c]
                  /\ results[RowsBefore(i) + c][KCredor] = Recognized[i].credores[c][KNome]

\* flat text with two sections, the first with two creditors of different names, has
\* given three rows: the two creditors in their order, then the second section
C15_TwoCreditorsThenNextRecord ==
    /\ Parsed
    /\ handlers = <<"FLAT_TEXT">>
    /\ Len(results) = 3
    /\ Len(Recognized) = 2
    /\ KCredor \in DOMAIN results[1] /\ Head(results[1][KCredor]) = "c1"
    /\ KCredor \in DOMAIN results[2] /\ Head(results[2][KCredor]) = "c2"
    /\ KCredor \notin DOMAIN results[3]

(***************************************************************************)
(* Properties of the table handler's records and of their export           *)
(***************************************************************************)

\* the texts of the cells of the kinds what in the r-th row of the results table
RowTexts(r, what) ==
    LET row == BlockNodes(doc.table.body, Positions(doc.table.body, IsRow, 1)[r], IsRow)
        at  == Positions(row, what, 1)
    IN [i \in 1..Len(at) |-> Strip(row[at[i]].t)]

\* the column names: the cells of the first row
ColumnNames == RowTexts(1, IsCell)

\* the number of rows after the first
DataRowCount == Len(Positions(doc.table.body, IsRow, 1)) - 1

\* the table is a header row and data rows: the rows after the first are all of a
\* data row class, or none of them is, and each has a td cell for every column name
HeaderAndDataRows ==
    /\ handlers = <<"TABLE">>
    /\ Positions(doc.table.body, IsRow, 1) # <<>>
    /\ Positions(doc.table.body, IsLink, 1) = <<>>
    /\ Len(Positions(doc.table.body, IsDataRow, 1)) \in {0, DataRowCount}
    /\ \A r \in 2..(DataRowCount + 1) : Len(RowTexts(r, IsTd)) >= Len(ColumnNames)

\* there are as many records as data rows, in the order of the rows, each with the
\* column names as its keys and, under each name, the text of the cell at its place
RecordPerDataRow ==
    /\ Len(results) = DataRowCount
    /\ \A j \in 1..DataRowCount :
          /\ j \in DOMAIN results
          /\ DOMAIN results[j] = {ColumnNames[h] : h \in 1..Len(ColumnNames)}
          /\ \A h \in 1..Len(ColumnNames) :
                results[j][ColumnNames[h]] = RowTexts(j + 1, IsTd)[h]

\* the run has ended and save_to_csv reported no error
SavedWithoutError == pc = "done" /\ "error: erro ao salvar resultados" \notin log

\* the CSV file is there, with the column names as its header and a row per data row
ExportRowPerDataRow ==
    /\ Written(output_file, "csv")
    /\ {files[output_file].header[h] : h \in DOMAIN files[output_file].header}
          = {ColumnNames[h] : h \in 1..Len(ColumnNames)}
    /\ Len(files[output_file].rows) = DataRowCount

DistinctNames ==
    /\ ColumnNames # <<>>
    /\ \A g, h \in 1..Len(ColumnNames) : ColumnNames[g] = ColumnNames[h] => g = h

CsvHeader == files[output_file].header

\* the place of value in seq, or 0
PlaceIn(seq, value) ==
    IF \E j \in 1..Len(seq) : seq[j] = value
    THEN CHOOSE j \in 1..Len(seq) : seq[j] = value
    ELSE 0

\* the place of a column: an important field's place among them, or else, after them
\* all, the place sorted() gives the name
ColumnRank(k) ==
    IF PlaceIn(important_fields, k) # 0 THEN PlaceIn(important_fields, k)
    ELSE Len(important_fields) + PlaceIn(KeyOrder, k)

\* the columns are the keys of the rows, each once, the important ones first and in
\* their order, the others after them in sorted order
ColumnsOfKeysInOrder ==
    /\ {CsvHeader[j] : j \in 1..Len(CsvHeader)} = UNION {DOMAIN results[i] : i \in 1..Len(results)}
    /\ \A a, b \in 1..Len(CsvHeader) : a < b => ColumnRank(CsvHeader[a]) < ColumnRank(CsvHeader[b])

NoAnchor ==
    /\ doc.noResults # "text"
    /\ ~doc.table.present /\ ~doc.div.present /\ ~doc.list.present
    /\ doc.marker # "inDiv"

\* C18: for a page with no layout anchor and no 'no results' message, _parse_results
\* returns the empty list, runs no handler and prints the warning that no format
\* was recognized; search returns normally
C18_NoAnchorWarns ==
    Parsed /\ NoAnchor =>
        /\ results = <<>>
        /\ handlers = <<>>
        /\ "warning: nenhum formato reconhecido" \in log
        /\ "error: traceback" \notin log

\* a page with the marker text outside any div, an empty 'no results' element and
\* nothing else has been parsed
C18_BareMarkerPageParsed ==
    /\ Parsed
    /\ NoAnchor
    /\ doc.marker = "bare"
    /\ doc.noResults = "blank"
    /\ results = <<>>
    /\ "warning: nenhum formato reconhecido" \in log

(***************************************************************************)
(* Properties of the sections of flat text                                 *)
(***************************************************************************)

\* the places of the 'Tribunal:' markers in the text of the page, in order
MarkerPlaces ==
    LET at == {p \in 1..(Len(doc.text) - 1) :
                  doc.text[p] = "Tribunal" /\ doc.text[p + 1] = ":"}
    IN [n \in 1..Cardinality(at) |->
           CHOOSE p \in at : Cardinality({q \in at : q < p}) = n - 1]

\* the text from the i-th marker to the next one, or to the end
SectionText(i) ==
    SubSeq(doc.text, MarkerPlaces[i],
           IF i < Len(MarkerPlaces) THEN MarkerPlaces[i + 1] - 1 ELSE Len(doc.text))

\* C20: flat text gives one record for each 'Tribunal:' marker (each has a court name
\* after it), in the order of the markers, and every value in the rows of the i-th
\* record is in the text from the i-th marker to the next: nothing comes from before
\* the first marker or from another section
C20_RecordPerMarkerSection ==
    Parsed /\ handlers = <<"FLAT_TEXT">> =>
        /\ Len(Recognized) = Len(MarkerPlaces)
        /\ Len(results) = SumRows(Recognized)
        /\ \A i \in 1..Len(Recognized) :
              \A c \in 1..RowsFor(Recognized[i]) :
                  \A k \in DOMAIN results[RowsBefore(i) + c] :
                      FindFrom(SectionText(i), results[RowsBefore(i) + c][k], 1) # 0

\* flat text with a creditor before the first marker and two sections, the second
\* with a creditor, has given two rows, the first without a creditor
C20_CreditorBeforeFirstMarker ==
    /\ Parsed
    /\ handlers = <<"FLAT_TEXT">>
    /\ Len(MarkerPlaces) = 2
    /\ FindFrom(SubSeq(doc.text, 1, MarkerPlaces[1] - 1), LCredor, 1) # 0
    /\ FindFrom(SectionText(1), LCredor, 1) = 0
    /\ FindFrom(SectionText(2), LCredor \o <<" ", "c1">>, 1) # 0
    /\ Len(results) = 2
    /\ KCredor \notin DOMAIN results[1]
    /\ KCredor \in DOMAIN results[2]

(***************************************************************************)
(* Properties of the label strategy                                        *)
(***************************************************************************)

\* the texts of the text nodes from place j up to the next node of a kind in stops
TextUpTo(nodes, j, stops) ==
    LET ends == {e \in j..Len(nodes) : nodes[e].k \in stops}
        last == IF ends = {} THEN Len(nodes) ELSE Min(ends) - 1
    IN Concat([e \in 1..(last - j + 1) |->
                  IF nodes[j + e - 1].k = "text" THEN nodes[j + e - 1].t ELSE <<>>])

\* the strong tag at place j is the last one of its name in the fragment
LastOfName(nodes, j) ==
    /\ nodes[j].k = "strong"
    /\ \A e \in (j + 1)..Len(nodes) : nodes[e].k = "strong" => nodes[e].t # nodes[j].t

\* in every row of a fragment the label strategy is applied to, the field of each
\* strong tag has the text after the tag up to the next node of a kind in stops
LabelValuesUpTo(stops) ==
    \A i \in 1..Len(Fragments) :
        (/\ HasContent(Records(doc)[i])
         /\ Cardinality(DOMAIN AnchorFields(Fragments[i], EmptyDict, 1)) < 2) =>
            \A c \in 1..RowsFor(Records(doc)[i]) :
                \A j \in 1..Len(Fragments[i]) :
                    LastOfName(Fragments[i], j) =>
                        /\ RowsBeforeRecord(i) + c \in DOMAIN results
                        /\ RStripColon(Strip(Fragments[i][j].t))
                              \in DOMAIN results[RowsBeforeRecord(i) + c]
                        /\ results[RowsBeforeRecord(i) + c][RStripColon(Strip(Fragments[i][j].t))]
                              = Strip(TextUpTo(Fragments[i], j + 1, stops))

\* the text of the line after the first place of the label in text (the white space
\* after the label skipped), without white space at its ends
LineAfter(text, label) ==
    LET from == FindFrom(text, label, 1) + Len(label)
        ends == {e \in from..Len(text) : text[e] = "\n" /\ Strip(SubSeq(text, from, e)) # <<>>}
    IN Strip(SubSeq(text, from, IF ends = {} THEN Len(text) ELSE Min(ends) - 1))

\* in the rows of every section of flat text, the fields Tribunal, Processo and
\* Insolvente have the text after their label up to the end of the line, and are not
\* there without a label, or with nothing after it
TextValuesToLineEnd ==
    \A recs \in {Records(doc)} :
        \A i \in 1..Len(MarkerPlaces) :
            /\ i \in DOMAIN recs
            /\ HasContent(recs[i]) =>
                  \A section \in {SectionText(i)},
                     before \in {SumRows(SelectSeq(SubSeq(recs, 1, i - 1), HasContent))} :
                      \A c \in 1..RowsFor(recs[i]) :
                          \A k \in {KTribunal, KProcesso, KInsolvente} :
                              /\ before + c \in DOMAIN results
                              /\ \A value \in {IF FindFrom(section, k \o <<":">>, 1) = 0 THEN <<>>
                                                ELSE LineAfter(section, k \o <<":">>)} :
                                     IF value = <<>>
                                     THEN k \notin DOMAIN results[before + c]
                                     ELSE /\ k \in DOMAIN results[before + c]
                                          /\ results[before + c][k] = value

AnchorPlaces(nodes) == {j \in 1..Len(nodes) : nodes[j].k = "span" /\ nodes[j].a # ""}

\* the field of the anchor at place j
AnchorKey(nodes, j) == IF nodes[j].a = "lblProcesso" THEN KProcesso ELSE KTribunal

\* the number of fields the anchors of the fragment give
AnchorCount(nodes) == Cardinality({AnchorKey(nodes, j) : j \in AnchorPlaces(nodes)})

\* C22: in the rows of a fragment of the results div or of an item of the results
\* span, every strong tag has given its field when the anchors give fewer than two
\* fields; when they give two or more, the fields are those of the anchors, with the
\* anchors' values, whatever strong tags there are
C22_LabelsOnlyUnderTwoAnchors ==
    Parsed /\ handlers \in {<<"PANEL_LIST">>, <<"LABELED_SPANS">>} =>
        \A i \in 1..Len(Fragments) :
            HasContent(Records(doc)[i]) =>
                \A c \in 1..RowsFor(Records(doc)[i]) :
                    /\ RowsBeforeRecord(i) + c \in DOMAIN results
                    /\ IF AnchorCount(Fragments[i]) < 2
                       THEN \A j \in 1..Len(Fragments[i]) :
                               Fragments[i][j].k = "strong" =>
                                   RStripColon(Strip(Fragments[i][j].t))
                                      \in DOMAIN results[RowsBeforeRecord(i) + c]
                       ELSE /\ DOMAIN results[RowsBeforeRecord(i) + c]
                                  \ {KLinks, KCredor, KCredorNif}
                                 = {AnchorKey(Fragments[i], j) : j \in AnchorPlaces(Fragments[i])}
                            /\ \A j \in AnchorPlaces(Fragments[i]) :
                                  results[RowsBeforeRecord(i) + c][AnchorKey(Fragments[i], j)]
                                     = Strip(Fragments[i][j].t)

\* a fragment of an item of the results span with two anchors and a strong tag
\* 'Processo:' with a text after it has been parsed: the row has the anchor's value
C22_TwoAnchorsAndLabel ==
    /\ Parsed
    /\ handlers = <<"LABELED_SPANS">>
    /\ Len(Fragments) = 1
    /\ AnchorCount(Fragments[1]) = 2
    /\ \E j \in 1..Len(Fragments[1]) :
          /\ Fragments[1][j] = StrongProcesso
          /\ Strip(TextUpTo(Fragments[1], j + 1, {"br"})) = <<"p2">>
    /\ Len(results) = 1
    /\ results[1][KProcesso] = <<"p1">>

(***************************************************************************)
(* C23: a candidate that cannot be processed is skipped                    *)
(***************************************************************************)

\* seq without the elements at the places in drop
Without(seq, drop) ==
    CHOOSE r \in {Concat([j \in 1..Len(seq) |-> IF j \in d THEN <<>> ELSE <<seq[j]>>]) :
                    d \in {drop}} : TRUE

\* the data rows of the table that have fewer cells than the header row has names
ShortRows ==
    LET body == doc.table.body
        head == Positions(body, TagWith({"tr"}, {"GridHeader"}), 1)
        need == Len(Positions(BlockNodes(body, head[1], Tag({"tr"})), Tag({"th"}), 1))
    IN {p \in 1..Len(body) :
           /\ body[p].k = "tr" /\ body[p].a = "GridRow"
           /\ \A n \in {need} :
                  Len(Positions(BlockNodes(body, p, Tag({"tr"})), Tag({"td"}), 1)) < n}

\* the results divs with no text in them
BlankDivs ==
    LET body == doc.div.body
    IN {p \in 1..Len(body) :
           /\ body[p].k = "div"
           /\ \A block \in {BlockNodes(body, p, Tag({"div"}))} :
                  \A j \in 1..Len(block) : Strip(block[j].t) = <<>>}

\* the sections of the flat text with nothing after their marker
BlankSections ==
    {i \in 1..Len(MarkerPlaces) :
        \A section \in {SectionText(i)} : Strip(SubSeq(section, 3, Len(section))) = <<>>}

\* the page without its candidates that cannot be processed
WithoutMalformed ==
    LET Block(body, p) == p..(p + Len(BlockNodes(body, p, Tag({body[p].k}))))
    IN CASE handlers = <<"TABLE">> ->
              [doc EXCEPT !.table.body =
                  Without(@, UNION {Block(doc.table.body, p) : p \in ShortRows})]
         [] handlers = <<"PANEL_LIST">> ->
              [doc EXCEPT !.div.body =
                  Without(@, UNION {Block(doc.div.body, p) : p \in BlankDivs})]
         [] handlers = <<"FLAT_TEXT">> ->
              [doc EXCEPT !.text =
                  Without(@, UNION {MarkerPlaces[i]..(MarkerPlaces[i] + Len(SectionText(i)) - 1) :
                                       i \in BlankSections})]
         [] OTHER -> doc

CreditorPlaces ==
    {p \in 1..Len(doc.div.body) : Includes(doc.div.body[p].t, "Credor")}

\* the places of the nodes of the results div that hold text
TextPlaces == {p \in 1..Len(doc.div.body) : doc.div.body[p].t # <<>>}

\* C24: the divs handler gives each record of the page once, also when it takes every
\* div, the nested ones included, as a candidate: there are no more rows with a
\* creditor than creditors in the page, and no more rows than nodes with text
C24_NoFragmentTwice ==
    Parsed /\ handlers = <<"PANEL_LIST">> =>
        /\ Cardinality({i \in 1..Len(results) : KCredor \in DOMAIN results[i]})
              <= Cardinality(CreditorPlaces)
        /\ Len(results) <= Cardinality(TextPlaces)

(***************************************************************************)
(* C25: the JSON file does not replace the CSV file                        *)
(***************************************************************************)

\* C25: for every output path the JSON file has a path of its own, and after a save
\* of a non-empty list that reported no error the file at the output path is the CSV
\* file
C25_JsonBesideCsv ==
    /\ JsonPath(output_file) # output_file
    /\ SavedWithoutError /\ Parsed /\ results # <<>> => Written(output_file, "csv")

(***************************************************************************)
(* C26: the requests of search                                             *)
(***************************************************************************)

\* C26: get_form_data is called at most max_retries times and not again after it has
\* succeeded; the POST is sent at most once, and only after get_form_data has
\* succeeded; a search without nif and designacao makes no request and returns
\* nothing, and one whose max_retries calls have all failed sends no POST and returns
\* nothing
C26_RequestsOfSearch ==
    /\ attempt <= max_retries
    /\ form_data => pc # "form"
    /\ posts <= 1
    /\ posts = 1 => form_data
    /\ query = "none" => attempt = 0 /\ posts = 0 /\ results = <<>>
    /\ pc \in {"save", "done"} /\ query # "none" /\ ~form_data =>
          attempt = max_retries /\ posts = 0 /\ results = <<>>

\* a search has ended after max_retries failed calls, without a POST
C26_AllAttemptsFailed ==
    /\ pc = "done" /\ query = "nif"
    /\ attempt = max_retries /\ ~form_data
    /\ posts = 0 /\ results = <<>>
    /\ "error: não foi possível obter dados do formulário" \in log

(***************************************************************************)
(* C27: the tax id of the insolvent in flat text                           *)
(***************************************************************************)

\* the places in text of the 'NIF/NIPC:' labels of the 'Insolvente:' entry: those
\* after the first 'Insolvente:' with no 'Credor:' or 'Administrador Insolvência:'
\* label in between
OwnTaxIdPlaces(text) ==
    LET ins      == FindFrom(text, LInsolvente, 1)
        Other(q) == FindFrom(text, LCredor, q) = q \/ FindFrom(text, LAdmin, q) = q
    IN IF ins = 0 THEN {}
       ELSE {p \in (ins + 1)..Len(text) :
                /\ FindFrom(text, LNif, p) = p
                /\ \A q \in (ins + 1)..(p - 1) : ~Other(q)}

\* C27: in flat text, the rows of a section whose 'Insolvente:' entry has no
\* 'NIF/NIPC:' label of its own have no 'NIF/NIPC' field
C27_TaxIdIsTheInsolvents ==
    Parsed /\ handlers = <<"FLAT_TEXT">> =>
        \A i \in 1..Len(MarkerPlaces) :
            i \in DOMAIN Records(doc) /\ HasContent(Records(doc)[i])
            /\ OwnTaxIdPlaces(SectionText(i)) = {} =>
                \A c \in 1..RowsFor(Records(doc)[i]) :
                    /\ RowsBeforeRecord(i) + c \in DOMAIN results
                    /\ KNif \notin DOMAIN results[RowsBeforeRecord(i) + c]

(***************************************************************************)
(* C28: the process blocks shown                                           *)
(***************************************************************************)

\* the (Tribunal, Processo) of a row, '' standing for a field that is not there
ProcessOf(row) ==
    << IF KTribunal \in DOMAIN row THEN row[KTribunal] ELSE <<>>,
       IF KProcesso \in DOMAIN row THEN row[KProcesso] ELSE <<>> >>

\* C28: for a non-empty result list, display_results_table shows one block for each
\* (Tribunal, Processo) of the rows, those of processes without a creditor included,
\* and the total of a block is the number of rows of its process with a 'Credor'
C28_BlockPerProcess ==
    pc = "done" /\ results # <<>> =>
        LET shown == display_results_table(results)
            procs == {ProcessOf(results[i]) : i \in 1..Len(results)}
        IN /\ Len(shown) = Cardinality(procs)
           /\ \A i \in 1..Len(results) :
                 \E b \in 1..Len(shown) :
                     /\ shown[b].processo_key = ProcessOf(results[i])[1] \o <<"-">>
                                                   \o ProcessOf(results[i])[2]
                     /\ shown[b].total =
                           Cardinality({j \in 1..Len(results) :
                                           /\ ProcessOf(results[j]) = ProcessOf(results[i])
                                           /\ KCredor \in DOMAIN results[j]})

====
